---- MODULE Spec2Model ----
(***************************************************************************)
(* Model of open-wearables-mcp: the formatting helpers (app/formatters.py), *)
(* the backend client (app/services/api_client.py), the list_users tool    *)
(* (app/tools/users.py), the per-session lifespan (app/main.py) and the    *)
(* user resolver / sleep and workout aggregators described by spec.md.     *)
(***************************************************************************)
EXTENDS Integers, Sequences, FiniteSets, TLC

VARIABLES
    fmtPc,        \* "in": inputs drawn, "out": the formatter has been applied
    fmtFn,        \* which formatter this behaviour exercises
    minutes,      \* input of format_duration_minutes (None or Some(m))
    durOut,       \* its output
    meters,       \* input of format_distance_km (None or Some(m))
    metersB,      \* a second, larger input of format_distance_km
    tieUp,        \* how the float rendering of meters falls on a decimal tie
    tieUpB,       \* the same for metersB
    distOut,      \* format_distance_km(meters)
    distOutB,     \* format_distance_km(metersB)
    dtIn,         \* input of parse_datetime / parse_time (None or Some(string))
    dtParts,      \* the fields dtIn was written from (None for the other inputs)
    dtOut,        \* what parse_datetime(dtIn) returned or raised
    timeOut,      \* what parse_time(dtIn) returned or raised
    apiKeyConfigured, \* settings.open_wearables_api_key is non-empty
    tool,         \* the tool being invoked ("none" before the first invocation)
    toolPc,       \* where the tool's coroutine is suspended
    args,         \* the arguments of the invocation
    outcome,      \* the resolver's outcome of this invocation (None before it)
    calls,        \* the backend client operations called during this invocation
    clientResult, \* what the last backend client operation returned or raised
    result,       \* what the invocation handed to its caller (None while running)
    httpClient,   \* client._http_client: None or Some(index of an AsyncClient)
    asyncClients, \* every httpx.AsyncClient created so far: "open" or "closed"
    sessPc,       \* per caller session: where its coroutine is suspended
    req,          \* per session: its current / last client operation
    reqResult,    \* per session: what that operation returned or raised
    sends,        \* per session: HTTP requests sent by that operation
    reqCount      \* per session: client operations started

fmtVars == <<fmtPc, fmtFn, minutes, durOut, meters, metersB, tieUp, tieUpB, distOut, distOutB,
            dtIn, dtParts, dtOut, timeOut>>

toolVars == <<tool, toolPc, args, outcome, calls, clientResult, result>>

clientVars == <<httpClient, asyncClients, sessPc, req, reqResult, sends, reqCount>>

vars == <<fmtVars, apiKeyConfigured, toolVars, clientVars>>

-----------------------------------------------------------------------------
(* Python's None and a present value *)
None == [none |-> TRUE]
Some(x) == [none |-> FALSE, v |-> x]

(* Bounds of the formatter inputs *)
MaxMinutes == 200
MaxMeters == 10100
MaxStep == 3

-----------------------------------------------------------------------------
(* Strings are sequences of one-character strings.                         *)
DigitChars == <<"0", "1", "2", "3", "4", "5", "6", "7", "8", "9">>

RECURSIVE IntStr(_)
(* str(n) / f"{n}" of a non-negative int *)
IntStr(n) == IF n < 10 THEN <<DigitChars[n + 1]>>
             ELSE IntStr(n \div 10) \o <<DigitChars[(n % 10) + 1]>>

RECURSIVE ZeroPad(_, _)
(* the digits of n, left-padded with zeros to width w (the fraction of a %.Nf) *)
ZeroPad(n, w) == IF w = 0 THEN <<>>
                 ELSE ZeroPad(n \div 10, w - 1) \o <<DigitChars[(n % 10) + 1]>>

Pow10(k) == CASE k = 0 -> 1 [] k = 1 -> 10 [] k = 2 -> 100 [] k = 3 -> 1000

(* format_duration_minutes, with the bug of dropping hours only above one hour *)
format_duration_minutes_lateHours(m) ==
    IF m = None THEN None
    ELSE LET hours == m.v \div 60
             mins == m.v % 60
         IN  IF hours > 1
             THEN Some(IntStr(hours) \o <<"h", " ">> \o IntStr(mins) \o <<"m">>)
             ELSE Some(IntStr(mins) \o <<"m">>)

(* format_duration_minutes(minutes) *)
format_duration_minutes(m) ==
    IF m = None THEN None
    ELSE LET hours == m.v \div 60
             mins == m.v % 60
         IN  IF hours > 0
             THEN Some(IntStr(hours) \o <<"h", " ">> \o IntStr(mins) \o <<"m">>)
             ELSE Some(IntStr(mins) \o <<"m">>)

(* A decimal tie of m/d: the exact quotient lies halfway between two        *)
(* renderable values.  The double nearest to meters/1000 then lies just     *)
(* above or just below the tie (or on it, rounded half-even), so the side   *)
(* the rendering takes is an input of the model.                            *)
IsTie(m, d) == 2 * (m % d) = d

(* m/d rounded to the nearest integer, a tie going up iff up *)
RoundDiv(m, d, up) ==
    LET q == m \div d
        r == m % d
    IN  IF 2 * r > d \/ (2 * r = d /\ up) THEN q + 1 ELSE q

(* f"{km:.Nf}" of km = m/1000, N = decimals *)
FixedKm(m, decimals, up) ==
    LET scaled == RoundDiv(m, Pow10(3 - decimals), up)
    IN  IntStr(scaled \div Pow10(decimals)) \o <<".">> \o ZeroPad(scaled % Pow10(decimals), decimals)

(* format_distance_km, with the precision switch one meter late (km > 10) *)
format_distance_km_lateSwitch(m, up) ==
    IF m = None THEN None
    ELSE IF m.v > 10000
         THEN Some(FixedKm(m.v, 1, up) \o <<" ", "k", "m">>)
         ELSE Some(FixedKm(m.v, 2, up) \o <<" ", "k", "m">>)

(* format_distance_km(meters): km = meters / 1000, km >= 10 iff meters >= 10000 *)
format_distance_km(m, up) ==
    IF m = None THEN None
    ELSE IF m.v >= 10000
         THEN Some(FixedKm(m.v, 1, up) \o <<" ", "k", "m">>)
         ELSE Some(FixedKm(m.v, 2, up) \o <<" ", "k", "m">>)

-----------------------------------------------------------------------------
(* Readers of the rendered strings, used to state the claims *)
Chars(s) == {s[i] : i \in 1..Len(s)}

IndexOf(s, c) == IF c \in Chars(s) THEN CHOOSE i \in 1..Len(s) : s[i] = c /\ \A j \in 1..(i - 1) : s[j] # c
                 ELSE 0

DigitVal(c) == CHOOSE d \in 0..9 : DigitChars[d + 1] = c

IsDigits(s) == Len(s) > 0 /\ \A i \in 1..Len(s) : \E d \in 1..10 : DigitChars[d] = s[i]

RECURSIVE ParseNat(_)
ParseNat(s) == IF Len(s) = 0 THEN 0
               ELSE 10 * ParseNat(SubSeq(s, 1, Len(s) - 1)) + DigitVal(s[Len(s)])

EndsWith(s, suffix) ==
    Len(s) >= Len(suffix) /\ SubSeq(s, Len(s) - Len(suffix) + 1, Len(s)) = suffix

(* the number part of "<number> km" *)
KmNumber(s) == SubSeq(s, 1, Len(s) - 3)

(* the count of digits after the decimal point of a rendered distance *)
Decimals(s) == Len(KmNumber(s)) - IndexOf(KmNumber(s), ".")

(* the rendered kilometre value, in thousandths of a kilometre *)
KmThousandths(s) ==
    LET num == KmNumber(s)
        dot == IndexOf(num, ".")
        whole == SubSeq(num, 1, dot - 1)
        frac == SubSeq(num, dot + 1, Len(num))
    IN  ParseNat(whole) * 1000 + ParseNat(frac) * Pow10(3 - Len(frac))

-----------------------------------------------------------------------------
(* parse_datetime / parse_time: app/formatters.py.  datetime.fromisoformat  *)
(* is modelled on the forms YYYY-MM-DD, YYYY-MM-DD?HH, YYYY-MM-DD?HH:MM and *)
(* YYYY-MM-DD?HH:MM:SS (? any one character), each with an optional         *)
(* +HH:MM / -HH:MM offset; every other string is a ValueError.              *)
Return(resp) == [raised |-> FALSE, response |-> resp]
Raise(exc) == [raised |-> TRUE, exc |-> exc]

RECURSIVE ReplaceZ(_)
(* dt_str.replace("Z", "+00:00") *)
ReplaceZ(s) ==
    IF Len(s) = 0 THEN <<>>
    ELSE (IF Head(s) = "Z" THEN <<"+", "0", "0", ":", "0", "0">> ELSE <<Head(s)>>) \o ReplaceZ(Tail(s))

Parsed(dt) == [ok |-> TRUE, dt |-> dt]
ValueError == [ok |-> FALSE, exc |-> "ValueError"]

IsLeap(y) == (y % 4 = 0 /\ y % 100 # 0) \/ y % 400 = 0

DaysInMonth(y, m) ==
    IF m = 2 THEN (IF IsLeap(y) THEN 29 ELSE 28)
    ELSE IF m \in {4, 6, 9, 11} THEN 30 ELSE 31

(* two digits within lo..hi, or -1 *)
TwoDigits(s, lo, hi) ==
    IF Len(s) = 2 /\ IsDigits(s) /\ ParseNat(s) >= lo /\ ParseNat(s) <= hi THEN ParseNat(s) ELSE 0 - 1

(* the date part: YYYY-MM-DD with year 1..9999 and a day of that month *)
IsoDate(s) ==
    IF ~(Len(s) = 10 /\ s[5] = "-" /\ s[8] = "-" /\ IsDigits(SubSeq(s, 1, 4)))
    THEN ValueError
    ELSE LET y == ParseNat(SubSeq(s, 1, 4))
             m == TwoDigits(SubSeq(s, 6, 7), 1, 12)
         IN  IF y < 1 \/ m < 0 THEN ValueError
             ELSE LET d == TwoDigits(SubSeq(s, 9, 10), 1, DaysInMonth(y, m))
                  IN  IF d < 0 THEN ValueError ELSE Parsed([year |-> y, month |-> m, day |-> d])

(* the clock part: HH, HH:MM or HH:MM:SS *)
IsoClock(s) ==
    IF ~(Len(s) \in {2, 5, 8}) THEN ValueError
    ELSE LET h == TwoDigits(SubSeq(s, 1, 2), 0, 23)
             mi == IF Len(s) >= 5 THEN (IF s[3] = ":" THEN TwoDigits(SubSeq(s, 4, 5), 0, 59) ELSE 0 - 1) ELSE 0
             sec == IF Len(s) = 8 THEN (IF s[6] = ":" THEN TwoDigits(SubSeq(s, 7, 8), 0, 59) ELSE 0 - 1) ELSE 0
         IN  IF h < 0 \/ mi < 0 \/ sec < 0 THEN ValueError
             ELSE Parsed([hour |-> h, minute |-> mi])

(* the UTC offset: sign, HH:MM, below 24 hours *)
IsoOffsetOk(s) ==
    /\ Len(s) = 6 /\ s[1] \in {"+", "-"} /\ s[4] = ":"
    /\ TwoDigits(SubSeq(s, 2, 3), 0, 23) >= 0
    /\ TwoDigits(SubSeq(s, 5, 6), 0, 59) >= 0

(* the index of the first sign character of s, 0 when it has none *)
SignAt(s) ==
    LET at == {i \in 1..Len(s) : s[i] \in {"+", "-"}}
    IN  IF at = {} THEN 0 ELSE CHOOSE i \in at : \A j \in at : i <= j

(* datetime.fromisoformat(s) *)
fromisoformat(s) ==
    IF Len(s) < 10 THEN ValueError
    ELSE LET date == IsoDate(SubSeq(s, 1, 10))
         IN  IF ~date.ok THEN ValueError
             ELSE IF Len(s) = 10
             THEN Parsed([year |-> date.dt.year, month |-> date.dt.month, day |-> date.dt.day,
                          hour |-> 0, minute |-> 0])
             ELSE LET rest == SubSeq(s, 12, Len(s))
                      sign == SignAt(rest)
                      clock == IsoClock(IF sign = 0 THEN rest ELSE SubSeq(rest, 1, sign - 1))
                  IN  IF ~clock.ok \/ (sign # 0 /\ ~IsoOffsetOk(SubSeq(rest, sign, Len(rest))))
                      THEN ValueError
                      ELSE Parsed([year |-> date.dt.year, month |-> date.dt.month, day |-> date.dt.day,
                                   hour |-> clock.dt.hour, minute |-> clock.dt.minute])

(* dt.strftime("%Y-%m-%d") and dt.strftime("%H:%M") *)
StrfDate(dt) == ZeroPad(dt.year, 4) \o <<"-">> \o ZeroPad(dt.month, 2) \o <<"-">> \o ZeroPad(dt.day, 2)
StrfTime(dt) == ZeroPad(dt.hour, 2) \o <<":">> \o ZeroPad(dt.minute, 2)

(* parse_datetime without its try / except *)
parse_datetime_noExcept(x) ==
    IF x = None \/ x.v = <<>> THEN Return(<<None, None>>)
    ELSE LET r == fromisoformat(ReplaceZ(x.v))
         IN  IF r.ok THEN Return(<<Some(StrfDate(r.dt)), Some(StrfTime(r.dt))>>)
             ELSE Raise(r.exc)

(* parse_datetime(dt_str) *)
parse_datetime(x) ==
    IF x = None \/ x.v = <<>> THEN Return(<<None, None>>)
    ELSE LET r == fromisoformat(ReplaceZ(x.v))
         IN  IF r.ok THEN Return(<<Some(StrfDate(r.dt)), Some(StrfTime(r.dt))>>)
             ELSE IF r.exc \in {"ValueError", "AttributeError"} THEN Return(<<None, None>>)
             ELSE Raise(r.exc)

(* parse_time(dt_str): _, time_str = parse_datetime(dt_str) *)
parse_time(x) ==
    LET r == parse_datetime(x)
    IN  IF r.raised THEN r ELSE Return(r.response[2])

(* The inputs: strings written from fields, valid and invalid, and others *)
IsoParts ==
    [year : {<<"2", "0", "2", "5">>, <<"2", "0", "2", "4">>},
     month : {<<"0", "1">>, <<"0", "2">>, <<"1", "2">>, <<"1", "3">>, <<"0", "0">>},
     day : {<<"0", "1">>, <<"1", "4">>, <<"2", "9">>, <<"3", "1">>, <<"3", "2">>},
     sep : {"T", " "},
     hour : {<<"0", "0">>, <<"0", "7">>, <<"2", "3">>, <<"2", "5">>},
     minute : {<<"0", "0">>, <<"1", "5">>, <<"5", "9">>, <<"6", "0">>},
     second : {<<>>, <<":", "0", "0">>, <<":", "6", "1">>},
     zone : {<<>>, <<"Z">>, <<"+", "0", "2", ":", "0", "0">>, <<"-", "0", "5", ":", "3", "0">>,
             <<"Z", "Z">>, <<"+", "2", "5", ":", "0", "0">>}]

IsoString(p) ==
    p.year \o <<"-">> \o p.month \o <<"-">> \o p.day \o <<p.sep>>
    \o p.hour \o <<":">> \o p.minute \o p.second \o p.zone

OtherStrings ==
    { <<>>,
      <<"n", "o", "t", "-", "a", "-", "d", "a", "t", "e">>,
      <<"2", "0", "2", "5", "-", "0", "1", "-", "1", "4">>,
      <<"2", "0", "2", "5", "-", "0", "2", "-", "3", "0">>,
      <<"2", "0", "2", "5", "-", "0", "1", "-", "1", "4", "T">>,
      <<"2", "0", "2", "5", "-", "0", "1", "-", "1", "4", "T", "0", "7">>,
      <<"0", "0", "0", "0", "-", "0", "1", "-", "0", "1", "T", "0", "0", ":", "0", "0">>,
      <<"0", "7", ":", "1", "5">>,
      <<"Z">> }

-----------------------------------------------------------------------------
(* Backend client: OpenWearablesClient._request and the operations on it.   *)
(* A message is the sequence of its parts (literal text and interpolated    *)
(* values).                                                                 *)

(* a key that a JSON object does not have *)
Absent == [absent |-> TRUE]

(* Bounds of the backend's answers *)
MaxUsers == 3
MaxExtraTotal == 1
MaxDays == 2
MaxWorkouts == 2

StatusCodes == {200, 400, 401, 404, 500}

(* str() of the exceptions httpx raises: transport-level error text *)
ConnectErrorText == "All connection attempts failed"
StatusErrorText == "Server error '500 Internal Server Error' for url 'http://backend/api/v1/users'"
RawTransportTexts == {ConnectErrorText, StatusErrorText}

BadRequestBody == "{\"detail\": \"Invalid date format\"}"
EnvFile == "/app/.env"

(* the request path of each client operation *)
PathOf(op) ==
    CASE op = "get_users" -> "/api/v1/users"
      [] op = "get_user" -> "/api/v1/users/{user_id}"
      [] op = "get_sleep_summaries" -> "/api/v1/users/{user_id}/summaries/sleep"
      [] op = "get_workouts" -> "/api/v1/users/{user_id}/events/workouts"

Returned(body) == [ok |-> TRUE, body |-> body]
Raised(exc, kind, msg) == [ok |-> FALSE, exc |-> exc, kind |-> kind, msg |-> msg]

(* the exception classes that `except ValueError` catches *)
IsValueError(exc) == exc \in {"ValueError", "JSONDecodeError", "ValidationError"}

(* what the network does with one HTTP request *)
TransportFailure == [kind |-> "transport_error", text |-> ConnectErrorText]
HttpResponse(status, text, json) == [kind |-> "response", status |-> status, text |-> text, json |-> json]
NotJson == [not_json |-> TRUE]

(* _ensure_configured *)
NotConfiguredError ==
    Raised("ValueError", "NotConfigured", <<"OPEN_WEARABLES_API_KEY is not configured. Please set it in: ", EnvFile>>)

(* _request after the response arrived, with the bug of handing the body   *)
(* of a failure status to the caller                                       *)
HandleResponse_bodyOnFailure(reply, path) ==
    IF reply.json = NotJson
    THEN Raised("JSONDecodeError", "Decode", <<"Expecting value: line 1 column 1 (char 0)">>)
    ELSE Returned(reply.json)

(* _request after the response arrived: the status checks, raise_for_status *)
(* and response.json()                                                      *)
HandleResponse(reply, path) ==
    IF reply.status = 401
    THEN Raised("ValueError", "Unauthorized", <<"Invalid API key. Check your OPEN_WEARABLES_API_KEY configuration.">>)
    ELSE IF reply.status = 404
    THEN Raised("ValueError", "NotFound", <<"Resource not found: ", path>>)
    ELSE IF reply.status = 400
    THEN Raised("ValueError", "BadRequest", <<"Bad request to ", path, ": ", reply.text>>)
    ELSE IF ~(reply.status \in 200..299)
    THEN Raised("HTTPStatusError", "Status", <<StatusErrorText>>)
    ELSE IF reply.json = NotJson
    THEN Raised("JSONDecodeError", "Decode", <<"Expecting value: line 1 column 1 (char 0)">>)
    ELSE Returned(reply.json)

(* the outcome of _request given what the network did with its request *)
RequestOutcome(reply, path) ==
    IF reply.kind = "transport_error"
    THEN Raised("ConnectError", "Transport", <<reply.text>>)
    ELSE HandleResponse(reply, path)

(* Backend data: user items as the backend lists them *)
UserItems ==
    { [id |-> "u1", first_name |-> Some("John"), last_name |-> Some("Doe"),
       email |-> Some("john@example.com"), created_at |-> "2025-01-01"],
      [id |-> "u2", first_name |-> Some("John"), last_name |-> None,
       email |-> None, created_at |-> "2025-01-02"],
      [id |-> "u3", first_name |-> None, last_name |-> Some("Smith"),
       email |-> Some("jane@example.com"), created_at |-> "2025-01-03"] }

NoRepeat(seq) == \A i, j \in 1..Len(seq) : i # j => seq[i] # seq[j]

(* the pages of users the backend may list, in the backend's order *)
UserPages == UNION { {p \in [1..n -> UserItems] : NoRepeat(p)} : n \in 0..MaxUsers }

(* a users page as the backend's contract has it: items and an integer total *)
ConformingUsersBodies ==
    { [items |-> Some(p), total |-> Some(Len(p) + extra)] : p \in UserPages, extra \in 0..MaxExtraTotal }

(* every users body the tool may be handed: keys absent or null as well *)
UsersBodies ==
    ConformingUsersBodies
    \cup { [items |-> Some(p), total |-> t] : p \in UserPages, t \in {Absent, None} }
    \cup { [items |-> i, total |-> Some(0)] : i \in {Absent, None} }

ErrorBody == [detail |-> "Invalid date format"]

ErrorReplies ==
    {TransportFailure}
    \cup { HttpResponse(st, BadRequestBody, ErrorBody) : st \in StatusCodes \ {200} }

UsersReplies == ErrorReplies \cup { HttpResponse(200, "", b) : b \in UsersBodies } \cup {HttpResponse(200, "", NotJson)}

ConformingUsersReplies == ErrorReplies \cup { HttpResponse(200, "", b) : b \in ConformingUsersBodies }

UserReplies(id) == ErrorReplies \cup { HttpResponse(200, "", u) : u \in {x \in UserItems : x.id = id} }

(* what a client operation hands to the tool that awaits it *)
ClientResults(op, replies) ==
    IF apiKeyConfigured THEN { RequestOutcome(r, PathOf(op)) : r \in replies }
    ELSE {NotConfiguredError}

-----------------------------------------------------------------------------
(* list_users tool: app/tools/users.py, app/tools/models.py                 *)
ListUsersResponse(users, total, error) == [users |-> users, total |-> total, error |-> error]

(* User(id=str(user.get("id")), first_name=..., last_name=..., email=...) *)
UserOf(item) ==
    [id |-> item.id, first_name |-> item.first_name, last_name |-> item.last_name, email |-> item.email]

(* list_users without its `except Exception` clause *)
list_users_noCatchAll(res) ==
    IF ~res.ok
    THEN IF IsValueError(res.exc)
         THEN Return(ListUsersResponse(<<>>, 0, Some(res.msg)))
         ELSE Raise(res.exc)
    ELSE LET users == IF res.body.items = Absent THEN Some(<<>>) ELSE res.body.items
         IN  IF users = None
             THEN Raise("TypeError")
             ELSE LET total == IF res.body.total = Absent THEN Some(Len(users.v)) ELSE res.body.total
                  IN  IF total = None
                      THEN Return(ListUsersResponse(<<>>, 0, Some(<<"1 validation error for ListUsersResponse">>)))
                      ELSE Return(ListUsersResponse([i \in 1..Len(users.v) |-> UserOf(users.v[i])], total.v, None))

(* list_users with the total always taken from the number of items *)
list_users_lenTotal(res) ==
    IF ~res.ok
    THEN IF IsValueError(res.exc)
         THEN Return(ListUsersResponse(<<>>, 0, Some(res.msg)))
         ELSE Return(ListUsersResponse(<<>>, 0, Some(<<"Failed to fetch users: ">> \o res.msg)))
    ELSE LET users == IF res.body.items = Absent THEN Some(<<>>) ELSE res.body.items
         IN  IF users = None
             THEN Return(ListUsersResponse(<<>>, 0, Some(<<"Failed to fetch users: ", "'NoneType' object is not iterable">>)))
             ELSE LET total == IF res.body.total = Absent THEN Some(Len(users.v)) ELSE res.body.total
                  IN  IF total = None
                      THEN Return(ListUsersResponse(<<>>, 0, Some(<<"1 validation error for ListUsersResponse">>)))
                      ELSE Return(ListUsersResponse([i \in 1..Len(users.v) |-> UserOf(users.v[i])], Len(users.v), None))

(* list_users, from the result of client.get_users on: the projection of    *)
(* the page, and the two except clauses.  A null "items" makes the          *)
(* comprehension raise TypeError; a null "total" fails the model's          *)
(* validation (ValidationError is a ValueError).                            *)
list_users(res) ==
    IF ~res.ok
    THEN IF IsValueError(res.exc)
         THEN Return(ListUsersResponse(<<>>, 0, Some(res.msg)))
         ELSE Return(ListUsersResponse(<<>>, 0, Some(<<"Failed to fetch users: ">> \o res.msg)))
    ELSE LET users == IF res.body.items = Absent THEN Some(<<>>) ELSE res.body.items
         IN  IF users = None
             THEN Return(ListUsersResponse(<<>>, 0, Some(<<"Failed to fetch users: ", "'NoneType' object is not iterable">>)))
             ELSE LET total == IF res.body.total = Absent THEN Some(Len(users.v)) ELSE res.body.total
                  IN  IF total = None
                      THEN Return(ListUsersResponse(<<>>, 0, Some(<<"1 validation error for ListUsersResponse">>)))
                      ELSE Return(ListUsersResponse([i \in 1..Len(users.v) |-> UserOf(users.v[i])], total.v, None))

-----------------------------------------------------------------------------
(* The caller sessions that share the module-level `client` *)
Sessions == {"s1", "s2"}

(* the shared client before any request *)
ClientIdle ==
    /\ httpClient = None /\ asyncClients = <<>>
    /\ sessPc = [s \in Sessions |-> "idle"]
    /\ req = [s \in Sessions |-> None]
    /\ reqResult = [s \in Sessions |-> None]
    /\ sends = [s \in Sessions |-> 0]
    /\ reqCount = [s \in Sessions |-> 0]

(* The state of the tools before any invocation *)
ToolIdle ==
    /\ tool = "none" /\ toolPc = "idle"
    /\ args = None /\ outcome = None /\ calls = <<>> /\ clientResult = None /\ result = None

(* Formatter specification: Init draws the inputs, one action per formatter *)
TieChoices(m, d) == IF IsTie(m, d) THEN BOOLEAN ELSE {FALSE}

KmDivisor(m) == IF m >= 10000 THEN 100 ELSE 10

FmtIdle ==
    /\ fmtPc = "in" /\ fmtFn = "none"
    /\ minutes = None /\ durOut = None
    /\ meters = None /\ metersB = None /\ tieUp = FALSE /\ tieUpB = FALSE
    /\ distOut = None /\ distOutB = None
    /\ dtIn = None /\ dtParts = None /\ dtOut = None /\ timeOut = None

InitFmt ==
    /\ apiKeyConfigured = TRUE
    /\ ToolIdle /\ ClientIdle
    /\ fmtPc = "in"
    /\ durOut = None /\ distOut = None /\ distOutB = None
    /\ dtOut = None /\ timeOut = None
    /\ \/ /\ fmtFn = "format_duration_minutes"
          /\ minutes \in {None} \cup {Some(m) : m \in 0..MaxMinutes}
          /\ meters = None /\ metersB = None /\ tieUp = FALSE /\ tieUpB = FALSE
          /\ dtIn = None /\ dtParts = None
       \/ /\ fmtFn = "parse_datetime"
          /\ minutes = None
          /\ meters = None /\ metersB = None /\ tieUp = FALSE /\ tieUpB = FALSE
          /\ \/ dtParts = None /\ dtIn \in {None} \cup {Some(x) : x \in OtherStrings}
             \/ \E parts \in IsoParts : dtParts = Some(parts) /\ dtIn = Some(IsoString(parts))
       \/ /\ fmtFn = "format_distance_km"
          /\ minutes = None
          /\ dtIn = None /\ dtParts = None
          /\ \/ meters = None /\ metersB = None /\ tieUp = FALSE /\ tieUpB = FALSE
             \/ \E m \in 0..MaxMeters, step \in 1..MaxStep :
                   /\ meters = Some(m)
                   /\ metersB = Some(m + step)
                   /\ tieUp \in TieChoices(m, KmDivisor(m))
                   /\ tieUpB \in TieChoices(m + step, KmDivisor(m + step))

FormatDuration ==
    /\ fmtPc = "in" /\ fmtFn = "format_duration_minutes"
    /\ durOut' = format_duration_minutes(minutes)
    /\ fmtPc' = "out"
    /\ UNCHANGED <<fmtFn, minutes, meters, metersB, tieUp, tieUpB, distOut, distOutB>>
    /\ UNCHANGED <<dtIn, dtParts, dtOut, timeOut>>
    /\ UNCHANGED <<apiKeyConfigured, toolVars, clientVars>>

FormatDistance ==
    /\ fmtPc = "in" /\ fmtFn = "format_distance_km"
    /\ distOut' = format_distance_km(meters, tieUp)
    /\ distOutB' = format_distance_km(metersB, tieUpB)
    /\ fmtPc' = "out"
    /\ UNCHANGED <<fmtFn, minutes, durOut, meters, metersB, tieUp, tieUpB>>
    /\ UNCHANGED <<dtIn, dtParts, dtOut, timeOut>>
    /\ UNCHANGED <<apiKeyConfigured, toolVars, clientVars>>

(* parse_datetime(dt_str) and parse_time(dt_str) on the same input *)
ParseDatetime ==
    /\ fmtPc = "in" /\ fmtFn = "parse_datetime"
    /\ dtOut' = parse_datetime(dtIn)
    /\ timeOut' = parse_time(dtIn)
    /\ fmtPc' = "out"
    /\ UNCHANGED <<fmtFn, minutes, durOut, meters, metersB, tieUp, tieUpB, distOut, distOutB>>
    /\ UNCHANGED <<dtIn, dtParts>>
    /\ UNCHANGED <<apiKeyConfigured, toolVars, clientVars>>

NextFmt == FormatDuration \/ FormatDistance \/ ParseDatetime

SpecFmt == InitFmt /\ [][NextFmt]_vars

-----------------------------------------------------------------------------
(* User resolver and metrics aggregators (get_sleep_records, get_workouts), *)
(* after spec.md sections 4.3, 4.4 and 7; the response fields are those of  *)
(* SleepRecordsResponse / WorkoutsResponse in app/tools/models.py.          *)
Resolved(user) == [tag |-> "Resolved", user |-> user]
NotFound == [tag |-> "NotFound"]
Ambiguous(candidates, total) == [tag |-> "Ambiguous", candidates |-> candidates, total |-> total]
NoUsersAvailable == [tag |-> "NoUsersAvailable"]
BackendError(kind) == [tag |-> "BackendError", kind |-> kind]

(* the resolver's first backend operation *)
ResolveOp(a) == IF a.user_id # None THEN "get_user" ELSE "get_users"

(* resolve, with the first match taken when several users match *)
resolve_firstMatch(a, res) ==
    IF ~res.ok
    THEN IF a.user_id # None /\ res.kind = "NotFound" THEN NotFound ELSE BackendError(res.kind)
    ELSE IF a.user_id # None
    THEN Resolved(res.body)
    ELSE LET items == res.body.items.v
         IN  IF Len(items) = 0
             THEN IF a.user_name # None THEN NotFound ELSE NoUsersAvailable
             ELSE Resolved(items[1])

(* resolve(explicitId, searchTerm), from the result of its backend call on *)
resolve(a, res) ==
    IF ~res.ok
    THEN IF a.user_id # None /\ res.kind = "NotFound" THEN NotFound ELSE BackendError(res.kind)
    ELSE IF a.user_id # None
    THEN Resolved(res.body)
    ELSE LET items == res.body.items.v
         IN  IF Len(items) = 0
             THEN IF a.user_name # None THEN NotFound ELSE NoUsersAvailable
             ELSE IF Len(items) = 1
             THEN Resolved(items[1])
             ELSE IF a.user_name # None
             THEN Ambiguous(items, Len(items))
             ELSE Ambiguous(items, res.body.total.v)

(* the aggregator fetches records for this outcome, here also when several *)
(* users match                                                             *)
ShouldFetch_alsoAmbiguous(o) == o.tag \in {"Resolved", "Ambiguous"}

(* the aggregator fetches records only for a Resolved user *)
ShouldFetch(o) == o.tag = "Resolved"

(* the user whose records are fetched *)
TargetUser(o) == IF o.tag = "Resolved" THEN o.user ELSE o.candidates[1]

UserInfo(item) == [id |-> item.id, first_name |-> item.first_name, last_name |-> item.last_name]

ResponseDefaults(t) ==
    LET common == [user |-> None, period |-> None, summary |-> None, error |-> None,
                   details |-> None, suggestion |-> None, matches |-> None,
                   available_users |-> None, total_users |-> None]
    IN  IF t = "get_sleep_records"
        THEN [f \in DOMAIN common \cup {"records"} |-> IF f = "records" THEN <<>> ELSE common[f]]
        ELSE [f \in DOMAIN common \cup {"workouts"} |-> IF f = "workouts" THEN <<>> ELSE common[f]]

(* the ambiguity / absence / error report of an unresolved invocation *)
UnresolvedResponse(t, a, o) ==
    LET d == ResponseDefaults(t)
    IN  CASE o.tag = "NotFound" ->
               [d EXCEPT !.error = Some(<<"User not found">>),
                         !.suggestion = Some(<<"Use list_users to discover available users">>)]
          [] o.tag = "NoUsersAvailable" ->
               [d EXCEPT !.error = Some(<<"No users available">>), !.total_users = Some(0)]
          [] o.tag = "Ambiguous" /\ a.user_name # None ->
               [d EXCEPT !.error = Some(<<"Multiple users match">>),
                         !.suggestion = Some(<<"Specify user_id or a more specific search term">>),
                         !.matches = Some([i \in 1..Len(o.candidates) |-> UserInfo(o.candidates[i])]),
                         !.total_users = Some(o.total)]
          [] o.tag = "Ambiguous" /\ a.user_name = None ->
               [d EXCEPT !.error = Some(<<"Multiple users available">>),
                         !.suggestion = Some(<<"Specify user_id or a more specific search term">>),
                         !.available_users = Some([i \in 1..Len(o.candidates) |-> UserInfo(o.candidates[i])]),
                         !.total_users = Some(o.total)]
          [] o.tag = "BackendError" ->
               [d EXCEPT !.error = Some(<<"Backend error", o.kind>>)]

(* DateWindow [today - days, today]; dates are day offsets from today *)
Period(days) == [start |-> 0 - days, end |-> 0]

SleepDurations == {None, Some(420), Some(480)}

(* the sleep summaries the backend holds for a window: at most one per      *)
(* calendar date of the closed window, in date order                        *)
SleepData(days) ==
    LET n == Period(days).end - Period(days).start + 1
        slots == [1..n -> {Absent} \cup SleepDurations]
        rec(f, i) == [date |-> Period(days).start + i - 1, duration_minutes |-> f[i], source |-> "whoop"]
    IN  { SelectSeq([i \in 1..n |-> IF f[i] = Absent THEN Absent ELSE rec(f, i)],
                    LAMBDA r : r # Absent) : f \in slots }

SleepRecord(raw) ==
    [date |-> raw.date, duration_minutes |-> raw.duration_minutes,
     duration_formatted |-> format_duration_minutes(raw.duration_minutes), source |-> raw.source]

Min(S) == CHOOSE x \in S : \A y \in S : x <= y
Max(S) == CHOOSE x \in S : \A y \in S : x >= y

(* SleepSummary: total_nights = days, nights_with_data = records with a duration *)
SleepSummary(days, recs) ==
    LET with == {i \in 1..Len(recs) : recs[i].duration_minutes # None}
        durs == {recs[i].duration_minutes.v : i \in with}
    IN  [total_nights |-> days,
         nights_with_data |-> Cardinality(with),
         min_duration_minutes |-> IF with = {} THEN None ELSE Some(Min(durs)),
         max_duration_minutes |-> IF with = {} THEN None ELSE Some(Max(durs))]

WorkoutItems ==
    { [type |-> Some("running"), duration_seconds |-> Some(2700)],
      [type |-> None, duration_seconds |-> None] }

WorkoutData == UNION { [1..n -> WorkoutItems] : n \in 0..MaxWorkouts }

WorkoutSummary(recs) ==
    [total_workouts |-> Len(recs),
     running |-> Cardinality({i \in 1..Len(recs) : recs[i].type = Some("running")})]

RecordReplies(t, days) ==
    ErrorReplies
    \cup { HttpResponse(200, "", [data |-> d]) :
             d \in IF t = "get_sleep_records" THEN SleepData(days) ELSE WorkoutData }

FetchOp(t) == IF t = "get_sleep_records" THEN "get_sleep_summaries" ELSE "get_workouts"

FetchOps == {"get_sleep_summaries", "get_workouts"}

(* the result of an invocation whose user is resolved, from the fetch on *)
AggregateResponse(t, a, o, res) ==
    LET d == ResponseDefaults(t)
    IN  IF ~res.ok
        THEN [d EXCEPT !.error = Some(<<"Backend error", res.kind>>)]
        ELSE IF t = "get_sleep_records"
        THEN LET recs == [i \in 1..Len(res.body.data) |-> SleepRecord(res.body.data[i])]
             IN  [d EXCEPT !.user = Some(UserInfo(TargetUser(o))), !.period = Some(Period(a.days)),
                           !.records = recs, !.summary = Some(SleepSummary(a.days, recs))]
        ELSE [d EXCEPT !.user = Some(UserInfo(TargetUser(o))), !.period = Some(Period(a.days)),
                       !.workouts = res.body.data, !.summary = Some(WorkoutSummary(res.body.data))]

-----------------------------------------------------------------------------
(* Tool invocations, one at a time; a coroutine is suspended at each await  *)
(* of a backend client operation.                                           *)
Call(op, arg) == [op |-> op, arg |-> arg]

InitTools ==
    /\ FmtIdle /\ ClientIdle
    /\ apiKeyConfigured \in BOOLEAN
    /\ ToolIdle

CanInvoke == toolPc \in {"idle", "done"}

(* list_users(search): up to `await client.get_users(search=search)` *)
InvokeListUsers ==
    /\ CanInvoke
    /\ \E search \in {None, Some("John")} :
          /\ args' = [search |-> search]
          /\ calls' = <<Call("get_users", search)>>
    /\ tool' = "list_users" /\ toolPc' = "await_users"
    /\ outcome' = None /\ clientResult' = None /\ result' = None
    /\ UNCHANGED <<apiKeyConfigured, fmtVars, clientVars>>

(* list_users: from the answer of get_users to the return *)
ListUsersReturn ==
    /\ tool = "list_users" /\ toolPc = "await_users"
    /\ \E res \in ClientResults("get_users", UsersReplies) :
          /\ clientResult' = res
          /\ result' = list_users(res)
    /\ toolPc' = "done"
    /\ UNCHANGED <<apiKeyConfigured, tool, args, outcome, calls, fmtVars, clientVars>>

(* get_sleep_records / get_workouts: up to the resolver's backend call *)
InvokeRecords ==
    /\ CanInvoke
    /\ \E t \in {"get_sleep_records", "get_workouts"},
          uid \in {None, Some("u1"), Some("u9")},
          name \in {None, Some("John")},
          days \in 1..MaxDays :
          LET a == [user_id |-> uid, user_name |-> name, days |-> days]
          IN  /\ tool' = t
              /\ args' = a
              /\ calls' = <<Call(ResolveOp(a), IF uid # None THEN uid ELSE name)>>
    /\ toolPc' = "resolving"
    /\ outcome' = None /\ clientResult' = None /\ result' = None
    /\ UNCHANGED <<apiKeyConfigured, fmtVars, clientVars>>

ResolveReplies(a) == IF a.user_id # None THEN UserReplies(a.user_id.v) ELSE ConformingUsersReplies

(* the resolver's backend call answers: resolve, then either short-circuit *)
(* with the report or go on to fetch the records                           *)
ResolveReturn ==
    /\ toolPc = "resolving"
    /\ \E res \in ClientResults(ResolveOp(args), ResolveReplies(args)) :
          LET o == resolve(args, res)
          IN  /\ clientResult' = res
              /\ outcome' = o
              /\ IF ShouldFetch(o)
                 THEN /\ calls' = Append(calls, Call(FetchOp(tool), Some(TargetUser(o).id)))
                      /\ toolPc' = "fetching"
                      /\ result' = None
                 ELSE /\ calls' = calls
                      /\ toolPc' = "done"
                      /\ result' = Return(UnresolvedResponse(tool, args, o))
    /\ UNCHANGED <<apiKeyConfigured, tool, args, fmtVars, clientVars>>

(* the record fetch answers: project the records and summarise *)
FetchReturn ==
    /\ toolPc = "fetching"
    /\ \E res \in ClientResults(FetchOp(tool), RecordReplies(tool, args.days)) :
          /\ clientResult' = res
          /\ result' = Return(AggregateResponse(tool, args, outcome, res))
    /\ toolPc' = "done"
    /\ UNCHANGED <<apiKeyConfigured, tool, args, outcome, calls, fmtVars, clientVars>>

NextTools == InvokeListUsers \/ ListUsersReturn \/ InvokeRecords \/ ResolveReturn \/ FetchReturn

SpecTools == InitTools /\ [][NextTools]_vars

-----------------------------------------------------------------------------
(* The shared backend client under concurrent caller sessions:              *)
(* OpenWearablesClient._get_client / close / _request and lifespan.         *)
(* A coroutine runs without interruption between two suspensions; it is     *)
(* suspended in http_client.request (the request is in flight) and in       *)
(* AsyncClient.aclose().                                                    *)
MaxRequests == 2

ClientOps == {"get_users", "get_user", "get_sleep_summaries", "get_workouts"}

Payload == [data |-> "payload"]

(* what the backend may do with one request of the client *)
ClientReplies == ErrorReplies \cup {HttpResponse(200, "", Payload), HttpResponse(200, "", NotJson)}

(* the request of an in-flight operation fails when its AsyncClient is     *)
(* closed under it                                                         *)
ClosedUnderRequest == Raised("ReadError", "Transport", <<"Connection closed">>)

(* the is_closed test of _get_client and close, inverted *)
IsOpen_invertedClosed(h) == h # None /\ asyncClients[h.v] = "closed"

(* self._http_client is not None and not self._http_client.is_closed *)
IsOpen(h) == h # None /\ asyncClients[h.v] = "open"

InitClient ==
    /\ FmtIdle /\ ToolIdle /\ ClientIdle
    /\ apiKeyConfigured \in BOOLEAN

(* _request up to the suspension in http_client.request: _ensure_configured, *)
(* _get_client (creating an AsyncClient when none is open) and the send    *)
RequestSend(s) ==
    /\ sessPc[s] = "idle" /\ reqCount[s] < MaxRequests
    /\ reqCount' = [reqCount EXCEPT ![s] = @ + 1]
    /\ \E op \in ClientOps, reply \in ClientReplies :
          IF ~apiKeyConfigured
          THEN /\ req' = [req EXCEPT ![s] = Some([op |-> op, reply |-> reply, handle |-> None])]
               /\ reqResult' = [reqResult EXCEPT ![s] = Some(NotConfiguredError)]
               /\ sends' = [sends EXCEPT ![s] = 0]
               /\ UNCHANGED <<httpClient, asyncClients, sessPc>>
          ELSE LET fresh == ~IsOpen(httpClient)
                   h == IF fresh THEN Len(asyncClients) + 1 ELSE httpClient.v
               IN  /\ asyncClients' = IF fresh THEN Append(asyncClients, "open") ELSE asyncClients
                   /\ httpClient' = Some(h)
                   /\ req' = [req EXCEPT ![s] = Some([op |-> op, reply |-> reply, handle |-> Some(h)])]
                   /\ reqResult' = [reqResult EXCEPT ![s] = None]
                   /\ sends' = [sends EXCEPT ![s] = 1]
                   /\ sessPc' = [sessPc EXCEPT ![s] = "in_flight"]
    /\ UNCHANGED <<apiKeyConfigured, fmtVars, toolVars>>

(* the results an in-flight request can complete with *)
Completions(r) ==
    {RequestOutcome(r.reply, PathOf(r.op))}
    \cup (IF asyncClients[r.handle.v] = "closed" THEN {ClosedUnderRequest} ELSE {})

(* _request from the resumption on: the status checks, return or raise *)
RequestComplete(s) ==
    /\ sessPc[s] = "in_flight"
    /\ \E res \in Completions(req[s].v) :
          reqResult' = [reqResult EXCEPT ![s] = Some(res)]
    /\ sessPc' = [sessPc EXCEPT ![s] = "idle"]
    /\ UNCHANGED <<httpClient, asyncClients, req, sends, reqCount>>
    /\ UNCHANGED <<apiKeyConfigured, fmtVars, toolVars>>

(* the session ends: lifespan's finally calls client.close(), which returns *)
(* at once when no AsyncClient is open and else suspends in aclose(), the  *)
(* AsyncClient being closed from then on                                   *)
CloseBegin(s) ==
    /\ sessPc[s] = "idle"
    /\ IF IsOpen(httpClient)
       THEN /\ asyncClients' = [asyncClients EXCEPT ![httpClient.v] = "closed"]
            /\ sessPc' = [sessPc EXCEPT ![s] = "closing"]
       ELSE /\ asyncClients' = asyncClients
            /\ sessPc' = [sessPc EXCEPT ![s] = "ended"]
    /\ UNCHANGED <<httpClient, req, reqResult, sends, reqCount>>
    /\ UNCHANGED <<apiKeyConfigured, fmtVars, toolVars>>

(* close() resumes after aclose(): self._http_client = None *)
CloseFinish(s) ==
    /\ sessPc[s] = "closing"
    /\ httpClient' = None
    /\ sessPc' = [sessPc EXCEPT ![s] = "ended"]
    /\ UNCHANGED <<asyncClients, req, reqResult, sends, reqCount>>
    /\ UNCHANGED <<apiKeyConfigured, fmtVars, toolVars>>

NextClient ==
    \E s \in Sessions : RequestSend(s) \/ RequestComplete(s) \/ CloseBegin(s) \/ CloseFinish(s)

SpecClient == InitClient /\ [][NextClient]_vars

(* Sequential use of the client: an operation starts only when no request  *)
(* is in flight and no close() is suspended.  The callers come one after   *)
(* the other: a new caller session connects after the previous one has     *)
(* ended (lifespan runs per client session), in the same session slot.     *)
SequentialSessions == {"s1"}

Quiet == \A t \in Sessions : sessPc[t] \in {"idle", "ended"}

SessionStart(s) ==
    /\ sessPc[s] = "ended"
    /\ sessPc' = [sessPc EXCEPT ![s] = "idle"]
    /\ UNCHANGED <<httpClient, asyncClients, req, reqResult, sends, reqCount>>
    /\ UNCHANGED <<apiKeyConfigured, fmtVars, toolVars>>

NextSequential ==
    \E s \in SequentialSessions :
        \/ Quiet /\ RequestSend(s)
        \/ RequestComplete(s)
        \/ Quiet /\ CloseBegin(s)
        \/ CloseFinish(s)
        \/ Quiet /\ SessionStart(s)

SpecSequential == InitClient /\ [][NextSequential]_vars

-----------------------------------------------------------------------------
RecordTools == {"get_sleep_records", "get_workouts"}

(* the indices of the record-fetch calls of the running invocation *)
FetchCalls == {i \in 1..Len(calls) : calls[i].op \in FetchOps}

(* C1: in get_sleep_records and get_workouts the backend client receives a  *)
(* record-fetch call (get_sleep_summaries / get_workouts) only after, and   *)
(* only for, a Resolved user; with any other resolution outcome it receives *)
(* none during the invocation.                                              *)
C1_NoFetchUnlessResolved ==
    tool \in RecordTools =>
        /\ outcome = None => FetchCalls = {}
        /\ (outcome # None /\ outcome.tag # "Resolved") => FetchCalls = {}
        /\ \A i \in FetchCalls :
              /\ i > 1
              /\ outcome # None /\ outcome.tag = "Resolved"
              /\ calls[i] = Call(FetchOp(tool), Some(outcome.user.id))

C1_Witness ==
    /\ tool = "get_sleep_records" /\ toolPc = "done"
    /\ outcome # None /\ outcome.tag = "Ambiguous"
    /\ Len(calls) = 1 /\ calls[1].op = "get_users"
    /\ result # None /\ result.response.matches # None

(* the resolver has answered and its backend result is still the last one *)
JustResolved ==
    /\ tool \in RecordTools /\ outcome # None
    /\ toolPc = "fetching" \/ (toolPc = "done" /\ outcome.tag # "Resolved")

(* C2: with no explicit user id, the outcome is determined by the number of *)
(* users the backend lists.  With a search term: 0 -> NotFound, 1 ->        *)
(* Resolved(that user), more -> Ambiguous(all matches in backend order,     *)
(* total = count).  Without: 0 -> NoUsersAvailable, 1 -> Resolved(the sole  *)
(* user), more -> Ambiguous(the listed users, the backend-reported total).  *)
C2_ResolutionByCount ==
    (JustResolved /\ args.user_id = None /\ clientResult.ok) =>
        LET items == clientResult.body.items.v
            n == Len(items)
        IN  /\ n = 0 => outcome = (IF args.user_name # None THEN NotFound ELSE NoUsersAvailable)
            /\ n = 1 => outcome = Resolved(items[1])
            /\ n > 1 => /\ outcome.tag = "Ambiguous"
                        /\ outcome.candidates = items
                        /\ outcome.total = (IF args.user_name # None THEN n
                                            ELSE clientResult.body.total.v)

C2_Witness ==
    /\ JustResolved /\ args.user_id = None /\ args.user_name = None /\ clientResult.ok
    /\ outcome.tag = "Ambiguous"
    /\ Len(outcome.candidates) = 2 /\ outcome.total = 3

SleepDone ==
    /\ tool = "get_sleep_records" /\ toolPc = "done"
    /\ result # None /\ ~result.raised /\ result.response.summary # None

(* C3: in every sleep Summary, nights_with_data (the records with a         *)
(* non-null duration) never exceeds total_nights (set to days).             *)
C3_NightsWithinTotal ==
    SleepDone =>
        result.response.summary.v.nights_with_data <= result.response.summary.v.total_nights

ListUsersDone == tool = "list_users" /\ toolPc = "done" /\ result # None

(* the page list_users builds from a body it can project *)
ProjectedUsers(body) ==
    LET items == IF body.items = Absent THEN <<>> ELSE body.items.v
    IN  [i \in 1..Len(items) |->
            [id |-> items[i].id, first_name |-> items[i].first_name,
             last_name |-> items[i].last_name, email |-> items[i].email]]

ExpectedTotal(body) ==
    IF body.total = Absent THEN Len(ProjectedUsers(body)) ELSE body.total.v

(* the projection accepts a body whose "items" is a list (or absent) and   *)
(* whose "total" is an integer (or absent)                                 *)
ProjectionAccepts(body) == body.items # None /\ body.total # None

(* C4 as stated: on every successful backend call list_users returns one   *)
(* User per backend item, in order, with the item's id, names and email,   *)
(* the backend-reported total (the item count when none is reported), and  *)
(* a null error.                                                           *)
C4_Original ==
    (ListUsersDone /\ clientResult.ok) =>
        /\ ~result.raised
        /\ result.response.error = None
        /\ result.response.users = ProjectedUsers(clientResult.body)
        /\ result.response.total = ExpectedTotal(clientResult.body)

(* C4 amended: the same, on a successful backend call whose response the   *)
(* projection accepts ("items" absent or a list, "total" absent or an      *)
(* integer).                                                               *)
C4_ListUsersProjection ==
    (ListUsersDone /\ clientResult.ok /\ ProjectionAccepts(clientResult.body)) =>
        /\ ~result.raised
        /\ result.response.error = None
        /\ result.response.users = ProjectedUsers(clientResult.body)
        /\ result.response.total = ExpectedTotal(clientResult.body)

C4_Witness ==
    /\ ListUsersDone /\ clientResult.ok /\ ProjectionAccepts(clientResult.body)
    /\ Len(result.response.users) = 2
    /\ result.response.users[1].id = "u2" /\ result.response.users[2].id = "u1"
    /\ result.response.total = 3

(* the backend call or the projection of its response failed *)
ListUsersFailed == ~clientResult.ok \/ ~ProjectionAccepts(clientResult.body)

(* C5: list_users never raises to its caller; when the backend call or the *)
(* projection fails the response has a non-null error, no users and total  *)
(* 0, otherwise error is null; no response has both an error and user data. *)
C5_ListUsersShapes ==
    ListUsersDone =>
        /\ ~result.raised
        /\ ListUsersFailed =>
              /\ result.response.error # None
              /\ result.response.users = <<>>
              /\ result.response.total = 0
        /\ ~ListUsersFailed => result.response.error = None
        /\ ~(result.response.error # None
             /\ (result.response.users # <<>> \/ result.response.total # 0))

C5_Witness ==
    /\ ListUsersDone /\ clientResult.ok /\ clientResult.body.items = None
    /\ ~result.raised
    /\ result.response.error # None /\ result.response.users = <<>>

(* C6: whatever way the backend client fails, the error field of a tool's  *)
(* response never contains raw transport-level error text.                 *)
C6_NoRawTransportText ==
    (toolPc = "done" /\ result # None /\ ~result.raised /\ result.response.error # None) =>
        \A i \in 1..Len(result.response.error.v) :
            result.response.error.v[i] \notin RawTransportTexts

-----------------------------------------------------------------------------
(* what the operation of a session yields when nothing interferes with it *)
UndisturbedResult(r) ==
    IF r.handle = None THEN NotConfiguredError ELSE RequestOutcome(r.reply, PathOf(r.op))

(* C7: concurrent invocations of different sessions are independent: a     *)
(* request in flight in one session completes with the outcome the backend *)
(* gives it, whatever another session does meanwhile, its ending (and      *)
(* client.close()) included.                                               *)
C7_IndependentOutcome ==
    \A s \in Sessions :
        reqResult[s] # None => reqResult[s].v = UndisturbedResult(req[s].v)

IsFailureReply(reply) ==
    IF reply.kind = "transport_error" THEN TRUE ELSE ~(reply.status \in 200..299)

(* C8: a client operation sends at most one HTTP request; it returns the   *)
(* response body only for a success status, and a failed request (401,     *)
(* 404, 400, another failure status, a transport failure) raises, without  *)
(* a second request.                                                       *)
C8_SingleRequestNoData ==
    \A s \in Sessions :
        /\ sends[s] <= 1
        /\ reqResult[s] # None =>
              LET r == req[s].v
                  res == reqResult[s].v
              IN  /\ res.ok => /\ sends[s] = 1
                               /\ ~IsFailureReply(r.reply)
                               /\ res.body = r.reply.json
                  /\ (r.handle # None /\ IsFailureReply(r.reply)) => (~res.ok /\ sends[s] = 1)

C8_Witness ==
    \E s \in Sessions :
        /\ reqResult[s] # None /\ ~reqResult[s].v.ok
        /\ req[s].v.reply.kind = "response" /\ req[s].v.reply.status = 500
        /\ reqResult[s].v.exc = "HTTPStatusError"
        /\ sends[s] = 1

-----------------------------------------------------------------------------
(* C9: for every minute count m >= 0 the output of format_duration_minutes  *)
(* has an hour prefix iff m >= 60; for m >= 60 it is "{h}h {r}m" with       *)
(* h = floor(m/60), r = m mod 60 (60*h + r = m, 0 <= r < 60); for m < 60 it *)
(* is "{m}m"; None yields None.                                             *)
DurationApplied == fmtPc = "out" /\ fmtFn = "format_duration_minutes"

DurationShape(m, s) ==
    LET hAt == IndexOf(s, "h")
    IN  /\ ("h" \in Chars(s)) <=> (m >= 60)
        /\ EndsWith(s, <<"m">>)
        /\ IF m < 60
           THEN /\ IsDigits(SubSeq(s, 1, Len(s) - 1))
                /\ ParseNat(SubSeq(s, 1, Len(s) - 1)) = m
                /\ s = IntStr(m) \o <<"m">>
           ELSE LET hs == SubSeq(s, 1, hAt - 1)
                    rs == SubSeq(s, hAt + 2, Len(s) - 1)
                IN  /\ s[hAt + 1] = " "
                    /\ IsDigits(hs) /\ IsDigits(rs)
                    /\ 60 * ParseNat(hs) + ParseNat(rs) = m
                    /\ ParseNat(rs) >= 0 /\ ParseNat(rs) < 60
                    /\ hs = IntStr(ParseNat(hs)) /\ rs = IntStr(ParseNat(rs))

C9_DurationFormat ==
    DurationApplied =>
        IF minutes = None THEN durOut = None
        ELSE durOut # None /\ DurationShape(minutes.v, durOut.v)

C9_Witness == DurationApplied /\ minutes = Some(125) /\ durOut = Some(<<"2", "h", " ", "5", "m">>)

(* C10: format_distance_km is monotonically non-decreasing in meters, its   *)
(* output always ends in " km", and it renders two decimals for             *)
(* meters < 10000 and one decimal for meters >= 10000.                      *)
DistanceApplied == fmtPc = "out" /\ fmtFn = "format_distance_km"

DistanceShape(m, s) ==
    /\ EndsWith(s, <<" ", "k", "m">>)
    /\ "." \in Chars(KmNumber(s))
    /\ Decimals(s) = (IF m < 10000 THEN 2 ELSE 1)

C10_DistanceFormat ==
    DistanceApplied =>
        IF meters = None THEN distOut = None /\ distOutB = None
        ELSE /\ distOut # None /\ distOutB # None
             /\ DistanceShape(meters.v, distOut.v)
             /\ DistanceShape(metersB.v, distOutB.v)
             /\ KmThousandths(distOut.v) <= KmThousandths(distOutB.v)

C10_Witness ==
    /\ DistanceApplied
    /\ meters = Some(9999) /\ metersB = Some(10000)
    /\ distOut = Some(<<"1", "0", ".", "0", "0", " ", "k", "m">>)
    /\ distOutB = Some(<<"1", "0", ".", "0", " ", "k", "m">>)

(* C11: parse_datetime is total: for None, the empty string, an             *)
(* unparseable string or an ISO-8601 timestamp (with or without a trailing  *)
(* "Z") it never raises and returns (None, None) or a pair of a             *)
(* "YYYY-MM-DD" date and an "HH:MM" time; None, empty and unparseable       *)
(* inputs give (None, None); parse_time returns the second element of       *)
(* parse_datetime on the same input.                                        *)
DatetimeApplied == fmtPc = "out" /\ fmtFn = "parse_datetime"

IsDateShape(s) ==
    /\ Len(s) = 10 /\ s[5] = "-" /\ s[8] = "-"
    /\ IsDigits(SubSeq(s, 1, 4)) /\ IsDigits(SubSeq(s, 6, 7)) /\ IsDigits(SubSeq(s, 9, 10))

IsTimeShape(s) ==
    Len(s) = 5 /\ s[3] = ":" /\ IsDigits(SubSeq(s, 1, 2)) /\ IsDigits(SubSeq(s, 4, 5))

(* the fields an input was written from name a real instant *)
PartsValid(p) ==
    /\ ParseNat(p.month) \in 1..12
    /\ ParseNat(p.day) \in 1..DaysInMonth(ParseNat(p.year), ParseNat(p.month))
    /\ ParseNat(p.hour) <= 23 /\ ParseNat(p.minute) <= 59
    /\ p.second \in {<<>>, <<":", "0", "0">>}
    /\ p.zone \in {<<>>, <<"Z">>, <<"+", "0", "2", ":", "0", "0">>, <<"-", "0", "5", ":", "3", "0">>}

UnparseableStrings ==
    { <<"n", "o", "t", "-", "a", "-", "d", "a", "t", "e">>,
      <<"2", "0", "2", "5", "-", "0", "2", "-", "3", "0">>,
      <<"2", "0", "2", "5", "-", "0", "1", "-", "1", "4", "T">>,
      <<"0", "0", "0", "0", "-", "0", "1", "-", "0", "1", "T", "0", "0", ":", "0", "0">>,
      <<"0", "7", ":", "1", "5">>,
      <<"Z">> }

NullEmptyOrUnparseable ==
    \/ dtIn = None
    \/ dtIn.v = <<>>
    \/ dtIn.v \in UnparseableStrings
    \/ dtParts # None /\ ~PartsValid(dtParts.v)

C11_ParseDatetimeTotal ==
    DatetimeApplied =>
        /\ ~dtOut.raised
        /\ ~timeOut.raised
        /\ \/ dtOut.response = <<None, None>>
           \/ /\ dtOut.response[1] # None /\ dtOut.response[2] # None
              /\ IsDateShape(dtOut.response[1].v)
              /\ IsTimeShape(dtOut.response[2].v)
        /\ NullEmptyOrUnparseable => dtOut.response = <<None, None>>
        /\ timeOut.response = dtOut.response[2]

C11_Witness ==
    /\ DatetimeApplied
    /\ dtIn = Some(<<"2", "0", "2", "5", "-", "0", "1", "-", "1", "4", "T",
                     "0", "7", ":", "1", "5", ":", "0", "0", "Z">>)
    /\ dtOut = Return(<<Some(<<"2", "0", "2", "5", "-", "0", "1", "-", "1", "4">>),
                        Some(<<"0", "7", ":", "1", "5">>)>>)
    /\ timeOut = Return(Some(<<"0", "7", ":", "1", "5">>))

(* C12: the client's HTTP session is lazily initialized and reused: over   *)
(* any sequential series of requests and close() calls, no AsyncClient     *)
(* exists before the first request; an AsyncClient is created only by a    *)
(* request that finds no open session; a request that finds an open        *)
(* session uses that instance; close() with no open session changes        *)
(* nothing; close() leaves no open session, so the first request after it  *)
(* creates a fresh one.                                                    *)
HoldsOpenSession == httpClient # None /\ asyncClients[httpClient.v] = "open"

SendsRequest(s) == sessPc[s] = "idle" /\ sessPc'[s] = "in_flight"
CallsClose(s) == sessPc[s] = "idle" /\ sessPc'[s] \in {"closing", "ended"}
ClosePasses(s) == sessPc[s] \in {"idle", "closing"} /\ sessPc'[s] = "ended"

NoClientBeforeFirstRequest ==
    (\A s \in Sessions : reqCount[s] = 0) => (asyncClients = <<>> /\ httpClient = None)

LazyReuseStep ==
    /\ Len(asyncClients') > Len(asyncClients) =>
          (~HoldsOpenSession /\ \E s \in Sessions : SendsRequest(s))
    /\ \A s \in Sessions :
          /\ SendsRequest(s) =>
                IF HoldsOpenSession
                THEN /\ asyncClients' = asyncClients /\ httpClient' = httpClient
                     /\ req'[s].v.handle = httpClient
                ELSE /\ asyncClients' = Append(asyncClients, "open")
                     /\ httpClient' = Some(Len(asyncClients) + 1)
                     /\ req'[s].v.handle = httpClient'
          /\ (CallsClose(s) /\ ~HoldsOpenSession) =>
                (asyncClients' = asyncClients /\ httpClient' = httpClient /\ sessPc'[s] = "ended")
          /\ (CallsClose(s) /\ HoldsOpenSession) => asyncClients'[httpClient.v] = "closed"
          /\ ClosePasses(s) =>
                (~HoldsOpenSession' /\ \A i \in 1..Len(asyncClients') : asyncClients'[i] = "closed")

C12_LazyReuse == []NoClientBeforeFirstRequest /\ [][LazyReuseStep]_vars

C12_Witness ==
    /\ Len(asyncClients) = 2
    /\ asyncClients[1] = "closed" /\ asyncClients[2] = "open"
    /\ httpClient = Some(2)
    /\ \E s \in Sessions : reqCount[s] = 2 /\ req[s].v.handle = Some(2) /\ sessPc[s] = "in_flight"

(* C13: under any interleaving of requests and close() calls on the shared  *)
(* client, every open AsyncClient is the one client._http_client refers    *)
(* to, and once every session has run its final close() and nothing is in  *)
(* flight, no AsyncClient is open.                                         *)
OpenClients == {i \in 1..Len(asyncClients) : asyncClients[i] = "open"}

AllClosedDown == \A s \in Sessions : sessPc[s] = "ended"

C13_NoOrphanedSession ==
    /\ \A i \in OpenClients : httpClient = Some(i)
    /\ AllClosedDown => OpenClients = {}

====
